---- MODULE Spec2Model ----
(***************************************************************************)
(* State-machine model of the smart surveillance pipeline:                 *)
(*   src/src/frame_grabber.py   FrameGrabber (capture thread + deque)      *)
(*   src/src/object_detector.py ObjectDetector (detect / filter_by_class)  *)
(*   src/src/orchestrator.py    SurveillanceOrchestrator                   *)
(*   src/src/alert_system.py    AlertSystem                                *)
(* Times are whole seconds, confidences are whole percents.                *)
(***************************************************************************)
EXTENDS Integers, Sequences, FiniteSets, TLC

(* ------------------------------ bounds --------------------------------- *)
\* buffer_size handed to FrameGrabber(...); the deque's maxlen
BufferSize == 2
\* number of frames the video source can deliver
MaxFrames == 3
\* number of capture threads that open() may start on one FrameGrabber
MaxOpens == 2
\* number of concurrent consumer threads reading the FrameGrabber
MaxReaders == 1

\* number of whole days the clock may advance
MaxDays == 1
\* number of process_frame calls that obtain a frame
MaxHistory == 2
\* number of direct calls into the AlertSystem
MaxCalls == 2
\* number of threads calling process_frame concurrently
MaxCallers == 2
\* number of boxes the model may report for one frame
MaxDets == 3
\* number of keyword arguments in one configure call
MaxKwargs == 2

None == <<>>
Free == <<>>

CaptureIds == 1..MaxOpens
ReaderIds == 1..MaxReaders
CapThread(i) == <<"capture", i>>

(* ------------------------------ state ---------------------------------- *)
VARIABLES
    \* FrameGrabber fields
    cap,             \* "None" | "opened" | "closed" (VideoCapture handle)
    is_active,
    is_running,
    frame_count,
    frame_errors,    \* the error counter of __init__
    frame_buffer,    \* deque(maxlen=buffer_size) of [ret, frame]
    buffer_lock,     \* Free or the thread holding the Lock
    capture_thread,  \* 0 (None) or the id of the Thread last started
    \* the capture threads running _capture_frames
    cap_pc,          \* per thread: position in _capture_frames
    cap_frame,       \* per thread: the local (ret, frame) of cap.read()
    cap_live,        \* per thread: was the handle opened when read() began
    \* the video source
    next_seq,        \* sequence number of the next frame the source yields
    \* the thread calling open() / release()
    main_pc,         \* "idle" | "join" (inside release, in Thread.join)
    opens,           \* number of threads started so far
    \* consumer threads calling get_frame / get_buffered_frames
    rd,
    \* history of completed pushes (frame_buffer.append calls), in order
    pushed,
    \* the clock read by datetime.now(), in seconds
    now,
    \* SurveillanceOrchestrator fields
    frame_grabber,      \* "None" | "FrameGrabber"
    object_detector,    \* None or <<ObjectDetector record>>
    orch_is_running,    \* SurveillanceOrchestrator.is_running
    config,
    last_alert_time,    \* None or <<time>>
    detection_history,
    \* AlertSystem fields
    sender_email,
    sender_password,
    recipient_emails,
    alert_history,
    \* effects on the outside world
    saved,              \* cv2.imwrite calls of save_alert_frame: [path, frame]
    sends,              \* send_alert_email calls, with their outcome
    \* history: the times at which an alert was raised, the number of
    \* process_frame calls that obtained a frame, the last filtered list
    raised,
    processed,
    last_target,
    \* the list object a caller got from get_alert_history
    caller_list,
    \* threads inside process_frame (concurrent callers)
    pf,
    \* a second orchestrator fed the same times with other detections
    twin,
    \* observations of the FrameGrabber's life cycle
    read_fails,         \* failed cap.read() calls since the last push (0, 1, many)
    cap_release_calls,  \* cap.release() calls on the current handle (0, 1, many)
    joined,             \* threads started before a release() that has returned
    rd_last,            \* per consumer: the frame its last get_frame returned
    \* the last call of interest, with its arguments and what it returned
    last_call

grabberVars == <<cap, is_active, is_running, frame_count, frame_errors,
                 frame_buffer,
                 buffer_lock, capture_thread, cap_pc, cap_frame, cap_live,
                 next_seq, main_pc, opens, pushed>>

orchVars == <<frame_grabber, object_detector, orch_is_running, config,
              last_alert_time, detection_history>>
alertVars == <<sender_email, sender_password, recipient_emails, alert_history>>
worldVars == <<saved, sends>>
historyVars == <<raised, processed, last_target>>
pipelineVars == <<now, orchVars, alertVars, worldVars, historyVars,
                  caller_list, pf, twin>>

\* observations other than the last call
lifeObs == <<read_fails, cap_release_calls, joined, rd_last>>
obsVars == <<lifeObs, last_call>>

vars == <<grabberVars, rd, pipelineVars, obsVars>>

(* --------------------------- FrameGrabber ------------------------------ *)
\* a bounded buffer that refuses the new entry when full (keeps the oldest)
DequeAppendDropNewest(buf, e, maxlen) ==
    IF Len(buf) >= maxlen THEN buf ELSE Append(buf, e)

\* a buffer that never evicts
DequeAppendUnbounded(buf, e, maxlen) == Append(buf, e)

\* a ring buffer that, when full, puts the new entry in front and drops the
\* newest one
DequeAppendRotate(buf, e, maxlen) ==
    IF maxlen = 0 THEN <<>>
    ELSE IF Len(buf) >= maxlen THEN <<e>> \o SubSeq(buf, 1, Len(buf) - 1)
    ELSE Append(buf, e)

\* collections.deque(maxlen=n).append(e)
DequeAppend(buf, e, maxlen) ==
    IF maxlen = 0 THEN <<>>
    ELSE IF Len(buf) >= maxlen THEN Append(Tail(buf), e)
    ELSE Append(buf, e)

RdIdle == [pc |-> "idle", op |-> "none", avail |-> FALSE, frame |-> 0,
           frames |-> <<>>, active |-> FALSE, pushes |-> 0, latest |-> 0]

\* FrameGrabber.__init__
GrabberInit ==
    /\ cap = "None"
    /\ is_active = FALSE
    /\ is_running = FALSE
    /\ frame_count = 0
    /\ frame_errors = 0
    /\ frame_buffer = <<>>
    /\ buffer_lock = Free
    /\ capture_thread = 0
    /\ cap_pc = [i \in CaptureIds |-> "unstarted"]
    /\ cap_frame = [i \in CaptureIds |-> 0]
    /\ cap_live = [i \in CaptureIds |-> FALSE]
    /\ next_seq = 1
    /\ main_pc = "idle"
    /\ opens = 0
    /\ pushed = <<>>

\* open() setting is_active and is_running before it tests isOpened()
openFlagsFirst(ok) ==
    /\ main_pc = "idle"
    /\ opens < MaxOpens
    /\ is_active' = TRUE
    /\ is_running' = TRUE
    /\ IF ~ok
       THEN /\ cap' = "closed"
            /\ UNCHANGED <<capture_thread, cap_pc, opens>>
       ELSE /\ cap' = "opened"
            /\ opens' = opens + 1
            /\ capture_thread' = opens + 1
            /\ cap_pc' = [cap_pc EXCEPT ![opens + 1] = "loop"]
    /\ UNCHANGED <<frame_errors, frame_count, frame_buffer, buffer_lock, cap_frame, cap_live,
                   next_seq, main_pc, pushed>>

\* FrameGrabber.open: ok says whether cv2.VideoCapture(source) opened
open(ok) ==
    /\ main_pc = "idle"
    /\ opens < MaxOpens
    /\ IF ~ok
       THEN /\ cap' = "closed"
            /\ UNCHANGED <<is_active, is_running, capture_thread, cap_pc, opens>>
       ELSE /\ cap' = "opened"
            /\ is_active' = TRUE
            /\ is_running' = TRUE
            /\ opens' = opens + 1
            /\ capture_thread' = opens + 1
            /\ cap_pc' = [cap_pc EXCEPT ![opens + 1] = "loop"]
    /\ UNCHANGED <<frame_errors, frame_count, frame_buffer, buffer_lock, cap_frame, cap_live,
                   next_seq, main_pc, pushed>>

\* _capture_frames: while self.is_running and self.cap is not None
CaptureLoop(i) ==
    /\ cap_pc[i] = "loop"
    /\ IF is_running /\ cap # "None"
       THEN /\ cap_pc' = [cap_pc EXCEPT ![i] = "read"]
            /\ cap_live' = [cap_live EXCEPT ![i] = (cap = "opened")]
       ELSE /\ cap_pc' = [cap_pc EXCEPT ![i] = "exited"]
            /\ UNCHANGED cap_live
    /\ UNCHANGED <<frame_errors, cap, is_active, is_running, frame_count, frame_buffer,
                   buffer_lock, capture_thread, cap_frame, next_seq, main_pc,
                   opens, pushed>>

\* _capture_frames: ret, frame = self.cap.read()  (blocking, no lock held)
\* A handle that was not opened when the read began yields ret = False; a
\* handle that was opened yields the next frame or a failed read.
CaptureRead(i, ret) ==
    /\ cap_pc[i] = "read"
    /\ ret => (cap_live[i] /\ next_seq <= MaxFrames)
    /\ IF ret
       THEN /\ cap_frame' = [cap_frame EXCEPT ![i] = next_seq]
            /\ next_seq' = next_seq + 1
            /\ cap_pc' = [cap_pc EXCEPT ![i] = "lock"]
       ELSE /\ cap_pc' = [cap_pc EXCEPT ![i] = "sleep"]
            /\ UNCHANGED <<cap_frame, next_seq>>
    /\ UNCHANGED <<frame_errors, cap, is_active, is_running, frame_count, frame_buffer,
                   buffer_lock, capture_thread, cap_live, main_pc, opens,
                   pushed>>

\* the append done without taking buffer_lock
CaptureAppendUnlocked(i) ==
    /\ cap_pc[i] = "lock"
    /\ frame_buffer' = DequeAppend(frame_buffer,
                                   [ret |-> TRUE, frame |-> cap_frame[i]],
                                   BufferSize)
    /\ pushed' = Append(pushed, cap_frame[i])
    /\ cap_pc' = [cap_pc EXCEPT ![i] = "count"]
    /\ UNCHANGED <<frame_errors, cap, is_active, is_running, frame_count,
                   buffer_lock, capture_thread, cap_frame, cap_live, next_seq,
                   main_pc, opens>>

\* _capture_frames: with self.buffer_lock:
\*     self.frame_buffer.append((ret, frame.copy()))
\* The thread waits here until the lock is free.
CaptureAppend(i) ==
    /\ cap_pc[i] = "lock"
    /\ buffer_lock = Free
    /\ buffer_lock' = CapThread(i)
    /\ frame_buffer' = DequeAppend(frame_buffer,
                                   [ret |-> TRUE, frame |-> cap_frame[i]],
                                   BufferSize)
    /\ pushed' = Append(pushed, cap_frame[i])
    /\ cap_pc' = [cap_pc EXCEPT ![i] = "count"]
    /\ UNCHANGED <<frame_errors, cap, is_active, is_running, frame_count,
                   capture_thread, cap_frame, cap_live, next_seq, main_pc,
                   opens>>

\* the counter update leaving the with block without giving the lock back
CaptureCountKeepLock(i) ==
    /\ cap_pc[i] = "count"
    /\ frame_count' = frame_count + 1
    /\ cap_pc' = [cap_pc EXCEPT ![i] = "loop"]
    /\ UNCHANGED <<frame_errors, cap, is_active, is_running, frame_buffer, buffer_lock,
                   capture_thread, cap_frame, cap_live, next_seq, main_pc,
                   opens, pushed>>

\* _capture_frames: self.frame_count += 1 ... end of the with block
CaptureCount(i) ==
    /\ cap_pc[i] = "count"
    /\ frame_count' = frame_count + 1
    /\ buffer_lock' = Free
    /\ cap_pc' = [cap_pc EXCEPT ![i] = "loop"]
    /\ UNCHANGED <<frame_errors, cap, is_active, is_running, frame_buffer, capture_thread,
                   cap_frame, cap_live, next_seq, main_pc, opens, pushed>>

\* a loop that gives up after a failed read instead of backing off
CaptureSleepGiveUp(i) ==
    /\ cap_pc[i] = "sleep"
    /\ cap_pc' = [cap_pc EXCEPT ![i] = "exited"]
    /\ UNCHANGED <<frame_errors, cap, is_active, is_running, frame_count, frame_buffer,
                   buffer_lock, capture_thread, cap_frame, cap_live, next_seq,
                   main_pc, opens, pushed>>

\* _capture_frames: time.sleep(0.01) after a failed read
CaptureSleep(i) ==
    /\ cap_pc[i] = "sleep"
    /\ cap_pc' = [cap_pc EXCEPT ![i] = "loop"]
    /\ UNCHANGED <<frame_errors, cap, is_active, is_running, frame_count, frame_buffer,
                   buffer_lock, capture_thread, cap_frame, cap_live, next_seq,
                   main_pc, opens, pushed>>

\* FrameGrabber.release, up to the join: self.is_running = False
releaseBegin ==
    /\ main_pc = "idle"
    /\ is_running' = FALSE
    /\ main_pc' = "join"
    /\ UNCHANGED <<frame_errors, cap, is_active, frame_count, frame_buffer, buffer_lock,
                   capture_thread, cap_pc, cap_frame, cap_live, next_seq,
                   opens, pushed>>

\* release() joining the thread without a timeout
releaseEndJoinForever(timeout) ==
    /\ main_pc = "join"
    /\ \/ capture_thread = 0
       \/ capture_thread # 0 /\ cap_pc[capture_thread] = "exited"
    /\ IF cap # "None"
       THEN cap' = "closed" /\ is_active' = FALSE
       ELSE UNCHANGED <<cap, is_active>>
    /\ main_pc' = "idle"
    /\ UNCHANGED <<frame_errors, is_running, frame_count, frame_buffer, buffer_lock,
                   capture_thread, cap_pc, cap_frame, cap_live, next_seq,
                   opens, pushed>>

\* release() without the test "if self.cap is not None"
releaseEndNoHandleTest(timeout) ==
    /\ main_pc = "join"
    /\ \/ capture_thread = 0
       \/ capture_thread # 0 /\ cap_pc[capture_thread] = "exited"
       \/ capture_thread # 0 /\ cap_pc[capture_thread] # "exited" /\ timeout
    /\ cap' = "closed"
    /\ is_active' = FALSE
    /\ main_pc' = "idle"
    /\ UNCHANGED <<frame_errors, is_running, frame_count, frame_buffer, buffer_lock,
                   capture_thread, cap_pc, cap_frame, cap_live, next_seq,
                   opens, pushed>>

\* release() that leaves is_active as it was
releaseEndStaysActive(timeout) ==
    /\ main_pc = "join"
    /\ \/ capture_thread = 0
       \/ capture_thread # 0 /\ cap_pc[capture_thread] = "exited"
       \/ capture_thread # 0 /\ cap_pc[capture_thread] # "exited" /\ timeout
    /\ IF cap # "None"
       THEN cap' = "closed"
       ELSE UNCHANGED cap
    /\ main_pc' = "idle"
    /\ UNCHANGED <<frame_errors, is_active, is_running, frame_count, frame_buffer,
                   buffer_lock, capture_thread, cap_pc, cap_frame, cap_live,
                   next_seq, opens, pushed>>

\* FrameGrabber.release, from the join on: capture_thread.join(timeout=2.0)
\* returns when the thread has exited or when the timeout expires, then
\* self.cap.release(); self.is_active = False
releaseEnd(timeout) ==
    /\ main_pc = "join"
    /\ \/ capture_thread = 0
       \/ capture_thread # 0 /\ cap_pc[capture_thread] = "exited"
       \/ capture_thread # 0 /\ cap_pc[capture_thread] # "exited" /\ timeout
    /\ IF cap # "None"
       THEN cap' = "closed" /\ is_active' = FALSE
       ELSE UNCHANGED <<cap, is_active>>
    /\ main_pc' = "idle"
    /\ UNCHANGED <<frame_errors, is_running, frame_count, frame_buffer, buffer_lock,
                   capture_thread, cap_pc, cap_frame, cap_live, next_seq,
                   opens, pushed>>

Latest(s) == IF Len(s) = 0 THEN 0 ELSE s[Len(s)]

\* the frame of the newest buffer entry, frame_buffer[-1], 0 if there is none
Newest(buf) == IF Len(buf) = 0 THEN 0 ELSE buf[Len(buf)].frame

\* get_frame without the is_active test: it always goes on to read the buffer
GetFrameCallNoActiveTest(j) ==
    /\ rd[j].pc = "idle"
    /\ rd' = [rd EXCEPT ![j] = [RdIdle EXCEPT !.pc = "lock",
                                              !.op = "get_frame",
                                              !.active = is_active]]
    /\ UNCHANGED grabberVars

\* FrameGrabber.get_frame: if not self.is_active: return False, None
GetFrameCall(j) ==
    /\ rd[j].pc = "idle"
    /\ IF ~is_active
       THEN rd' = [rd EXCEPT ![j] = [RdIdle EXCEPT !.pc = "returned",
                                        !.op = "get_frame",
                                        !.pushes = Len(pushed),
                                        !.latest = Latest(pushed)]]
       ELSE rd' = [rd EXCEPT ![j] = [RdIdle EXCEPT !.pc = "lock",
                                        !.op = "get_frame",
                                        !.active = TRUE]]
    /\ UNCHANGED grabberVars

\* get_frame reading the oldest buffered entry, frame_buffer[0]
get_frame_result_oldest(buf) ==
    IF Len(buf) > 0
    THEN [avail |-> buf[1].ret, frame |-> buf[1].frame]
    ELSE [avail |-> FALSE, frame |-> 0]

\* the value get_frame returns for a buffer: frame_buffer[-1] or (False, None)
get_frame_result(buf) ==
    IF Len(buf) > 0
    THEN [avail |-> buf[Len(buf)].ret, frame |-> buf[Len(buf)].frame]
    ELSE [avail |-> FALSE, frame |-> 0]

\* get_frame: with self.buffer_lock: ... return  (waits until the lock is
\* free; the block only reads the buffer, so it is one step)
GetFrameRead(j) ==
    /\ rd[j].pc = "lock"
    /\ rd[j].op = "get_frame"
    /\ buffer_lock = Free
    /\ rd' = [rd EXCEPT ![j].pc = "returned",
                        ![j].avail = get_frame_result(frame_buffer).avail,
                        ![j].frame = get_frame_result(frame_buffer).frame,
                        ![j].pushes = Len(pushed),
                        ![j].latest = Latest(pushed)]
    /\ UNCHANGED grabberVars

\* FrameGrabber.get_buffered_frames: call
GetBufferedCall(j) ==
    /\ rd[j].pc = "idle"
    /\ rd' = [rd EXCEPT ![j] = [RdIdle EXCEPT !.pc = "lock",
                                              !.op = "get_buffered_frames"]]
    /\ UNCHANGED grabberVars

\* get_buffered_frames: return list(self.frame_buffer)
GetBufferedRead(j) ==
    /\ rd[j].pc = "lock"
    /\ rd[j].op = "get_buffered_frames"
    /\ buffer_lock = Free
    /\ rd' = [rd EXCEPT ![j].pc = "returned",
                        ![j].frames = frame_buffer,
                        ![j].pushes = Len(pushed),
                        ![j].latest = Latest(pushed)]
    /\ UNCHANGED grabberVars

\* the consumer takes the returned value and is ready for its next call
ReaderReturn(j) ==
    /\ rd[j].pc = "returned"
    /\ rd' = [rd EXCEPT ![j] = RdIdle]
    /\ UNCHANGED grabberVars

(* ------------------------------- time ---------------------------------- *)
\* datetime.timedelta keeps days and seconds apart; .seconds is the seconds
\* part only, 0 <= seconds < 86400
SecondsPerDay == 86400

\* the instants at which the clock is observed
Times == {d * SecondsPerDay + s : d \in 0..MaxDays, s \in {0, 10, 30}}

\* (later - earlier).total_seconds(), the elapsed time
Elapsed(later, earlier) == later - earlier

\* (later - earlier).seconds
TimedeltaSeconds(later, earlier) == (later - earlier) % SecondsPerDay

\* time passes
Tick ==
    /\ \E t \in Times : t > now /\ now' = t
    /\ UNCHANGED <<grabberVars, rd, obsVars, orchVars, alertVars, worldVars,
                   historyVars, caller_list, pf, twin>>

(* ---------------------------- ObjectDetector --------------------------- *)
Det(c, p) == [class_name |-> c, confidence |-> p]
Range(s) == {s[k] : k \in 1..Len(s)}

\* what the YOLO model may report for a frame (results[..].boxes)
RawOutputs ==
    { <<>>,
      <<Det("car", 80)>>,
      <<Det("person", 90), Det("car", 80), Det("person", 40)>> }

\* ObjectDetector.__init__ / _initialize_model: loads says whether YOLO loaded
NewObjectDetector(confidence_threshold, loads) ==
    [model |-> IF loads THEN "YOLO" ELSE "None",
     has_fallback |-> ~loads,
     confidence_threshold |-> confidence_threshold]

\* detect keeping only the boxes strictly above the threshold
detectStrict(d, raw, rects, fails) ==
    IF d.model = "None"
    THEN IF d.has_fallback
         THEN [k \in 1..rects |-> Det("motion", 100)]
         ELSE <<>>
    ELSE IF fails THEN <<>>
    ELSE SelectSeq(raw, LAMBDA x : x.confidence > d.confidence_threshold)

\* detect without the motion fallback
detectNoFallback(d, raw, rects, fails) ==
    IF d.model = "None"
    THEN <<>>
    ELSE IF fails THEN <<>>
    ELSE SelectSeq(raw, LAMBDA x : x.confidence >= d.confidence_threshold)

\* ObjectDetector.detect: raw is the model's output, rects the number of
\* moving regions the fallback finds, fails whether the model call raises
detect(d, raw, rects, fails) ==
    IF d.model = "None"
    THEN IF d.has_fallback
         THEN [k \in 1..rects |-> Det("motion", 100)]
         ELSE <<>>
    ELSE IF fails THEN <<>>
    ELSE SelectSeq(raw, LAMBDA x : x.confidence >= d.confidence_threshold)

\* filter_by_class dropping the less confident detections as well
filter_by_class_confident(detections, class_names) ==
    SelectSeq(detections, LAMBDA x : /\ x.class_name \in Range(class_names)
                                     /\ x.confidence >= 50)

\* ObjectDetector.filter_by_class
filter_by_class(detections, class_names) ==
    SelectSeq(detections, LAMBDA x : x.class_name \in Range(class_names))

\* ObjectDetector.set_confidence_threshold: max(0.0, min(1.0, threshold))
set_confidence_threshold(d, threshold) ==
    [d EXCEPT !.confidence_threshold =
         IF threshold > 100 THEN 100 ELSE IF threshold < 0 THEN 0 ELSE threshold]

(* ------------------------------ AlertSystem ---------------------------- *)
\* Python truthiness of an optional string
Falsy(x) == x \in {"None", ""}

\* the AlertSystem object together with the files and mails it produced
AlertSystemNow ==
    [sender_email |-> sender_email, sender_password |-> sender_password,
     recipient_emails |-> recipient_emails, alert_history |-> alert_history,
     saved |-> saved, sends |-> sends]

\* AlertSystem.__init__
NewAlertSystem ==
    [sender_email |-> "None", sender_password |-> "None",
     recipient_emails |-> <<>>, alert_history |-> <<>>,
     saved |-> <<>>, sends |-> <<>>]

\* AlertSystem.configure_email
configure_email(a, email, password) ==
    [a EXCEPT !.sender_email = email, !.sender_password = password]

\* add_recipient appending whatever it is given
add_recipient_always(a, email) ==
    [a EXCEPT !.recipient_emails = Append(@, email)]

\* AlertSystem.add_recipient
add_recipient(a, email) ==
    IF email \in Range(a.recipient_emails)
    THEN a
    ELSE [a EXCEPT !.recipient_emails = Append(@, email)]

\* AlertSystem.send_alert_email at time t; smtp_ok says whether the SMTP
\* exchange succeeds. Returns the AlertSystem and the result.
send_alert_email(a, subject, message, attachment_path, t, smtp_ok) ==
    LET call(ok) == [time |-> t, subject |-> subject, message |-> message,
                     attachment |-> attachment_path, ok |-> ok]
    IN IF Falsy(a.sender_email) \/ Falsy(a.sender_password)
       THEN [a |-> [a EXCEPT !.sends = Append(@, call(FALSE))], ok |-> FALSE]
       ELSE IF a.recipient_emails = <<>>
       THEN [a |-> [a EXCEPT !.sends = Append(@, call(FALSE))], ok |-> FALSE]
       ELSE IF smtp_ok
       THEN [a |-> [a EXCEPT !.sends = Append(@, call(TRUE)),
                             !.alert_history =
                                 Append(@, [timestamp |-> t,
                                            subject |-> subject,
                                            recipients |-> a.recipient_emails])],
             ok |-> TRUE]
       ELSE [a |-> [a EXCEPT !.sends = Append(@, call(FALSE))], ok |-> FALSE]

\* the file name save_alert_frame builds: alert_%Y%m%d_%H%M%S.jpg in output_dir
AlertPath(output_dir, t) == <<output_dir, "alert", t>>

\* AlertSystem.save_alert_frame at time t; ok says whether writing succeeds.
\* Returns the AlertSystem and the path (None on failure).
save_alert_frame(a, frame, output_dir, t, ok) ==
    IF ok
    THEN [a |-> [a EXCEPT !.saved =
                     Append(@, [path |-> AlertPath(output_dir, t),
                                frame |-> frame])],
          path |-> <<AlertPath(output_dir, t)>>]
    ELSE [a |-> a, path |-> None]

\* get_alert_history handing out the stored list itself
get_alert_history_alias(history) == [ref |-> "stored", items |-> history]

\* AlertSystem.get_alert_history: a new list with the same records
get_alert_history(history) == [ref |-> "copy", items |-> history]

(* ----------------------- SurveillanceOrchestrator ---------------------- *)
\* SurveillanceOrchestrator.__init__: self.config
DefaultConfig ==
    [target_classes |-> <<"person">>,
     confidence_threshold |-> 50,
     alert_cooldown_seconds |-> 30,
     enable_email_alerts |-> FALSE,
     save_alert_frames |-> TRUE,
     alert_frame_dir |-> "alerts"]

\* the orchestrator's alerting state: config, cooldown state, AlertSystem
OrchNow ==
    [config |-> config, last_alert_time |-> last_alert_time,
     raised |-> raised, a |-> AlertSystemNow]

NewOrch ==
    [config |-> DefaultConfig, last_alert_time |-> None, raised |-> <<>>,
     a |-> NewAlertSystem]

\* _handle_detection: subject = f"Security Alert: {len(detections)} Objects Detected"
AlertSubject(detections) == <<"Security Alert", Len(detections), "Objects Detected">>

\* f"{confidence:.2%}" of a confidence that is a whole percent: "90.00%"
FormatPercent(p) == <<p, ".00%">>

\* _create_alert_message listing the first detection only
create_alert_message_first(detections, t) ==
    [time |-> t, count |-> Len(detections),
     lines |-> [k \in 1..(IF detections = <<>> THEN 0 ELSE 1) |->
                   <<detections[k].class_name,
                     FormatPercent(detections[k].confidence)>>]]

\* SurveillanceOrchestrator._create_alert_message: the time to the second,
\* "Objects Detected: n", and one line "- class (Confidence: xx.xx%)" per
\* detection
create_alert_message(detections, t) ==
    [time |-> t, count |-> Len(detections),
     lines |-> [k \in 1..Len(detections) |->
                   <<detections[k].class_name,
                     FormatPercent(detections[k].confidence)>>]]

\* _handle_detection, lines 110-112: the cooldown test
InCooldown(o, t) ==
    /\ o.last_alert_time # None
    /\ TimedeltaSeconds(t, o.last_alert_time[1]) < o.config.alert_cooldown_seconds

\* _handle_detection, line 115: self.last_alert_time = datetime.now()
SetLastAlert(o, t) ==
    [o EXCEPT !.last_alert_time = <<t>>, !.raised = Append(@, t)]

\* _handle_detection saving the frame whatever save_alert_frames says
SaveAndSendAlways(o, frame, detections, t, save_ok, smtp_ok) ==
    LET sv == save_alert_frame(o.a, frame, o.config.alert_frame_dir, t, save_ok)
        a2 == IF o.config.enable_email_alerts
              THEN send_alert_email(sv.a, AlertSubject(detections),
                                    create_alert_message(detections, t),
                                    sv.path, t, smtp_ok).a
              ELSE sv.a
    IN [o EXCEPT !.a = a2]

\* _handle_detection, lines 122-135: save the frame, send the mail
SaveAndSend(o, frame, detections, t, save_ok, smtp_ok) ==
    LET sv == IF o.config.save_alert_frames
              THEN save_alert_frame(o.a, frame, o.config.alert_frame_dir,
                                    t, save_ok)
              ELSE [a |-> o.a, path |-> None]
        a2 == IF o.config.enable_email_alerts
              THEN send_alert_email(sv.a, AlertSubject(detections),
                                    create_alert_message(detections, t),
                                    sv.path, t, smtp_ok).a
              ELSE sv.a
    IN [o EXCEPT !.a = a2]

\* _handle_detection that restarts the cooldown on every detection
HandleDetectionSliding(o, frame, detections, t, save_ok, smtp_ok) ==
    IF InCooldown(o, t)
    THEN [o EXCEPT !.last_alert_time = <<t>>]
    ELSE SaveAndSend(SetLastAlert(o, t), frame, detections, t, save_ok, smtp_ok)

\* _handle_detection in which a person is never suppressed
HandleDetectionPerson(o, frame, detections, t, save_ok, smtp_ok) ==
    IF InCooldown(o, t) /\ Det("person", 90) \notin Range(detections)
    THEN o
    ELSE SaveAndSend(SetLastAlert(o, t), frame, detections, t, save_ok, smtp_ok)

\* SurveillanceOrchestrator._handle_detection
HandleDetection(o, frame, detections, t, save_ok, smtp_ok) ==
    IF InCooldown(o, t)
    THEN o
    ELSE SaveAndSend(SetLastAlert(o, t), frame, detections, t, save_ok, smtp_ok)

\* write an orchestrator alerting state back to the variables
StoreOrch(o) ==
    /\ config' = o.config
    /\ last_alert_time' = o.last_alert_time
    /\ raised' = o.raised
    /\ sender_email' = o.a.sender_email
    /\ sender_password' = o.a.sender_password
    /\ recipient_emails' = o.a.recipient_emails
    /\ alert_history' = o.a.alert_history
    /\ saved' = o.a.saved
    /\ sends' = o.a.sends

\* one entry of detection_history (frame_info left out)
HistoryEntry(t, target) ==
    [timestamp |-> t, detections |-> target, detection_count |-> Len(target)]

PfIdle == [pc |-> "idle", frame |-> 0, target |-> <<>>]

\* SurveillanceOrchestrator.__init__ and the objects it creates
PipelineInit ==
    /\ now = 0
    /\ frame_grabber = "None"
    /\ object_detector = None
    /\ orch_is_running = FALSE
    /\ config = DefaultConfig
    /\ last_alert_time = None
    /\ detection_history = <<>>
    /\ sender_email = "None"
    /\ sender_password = "None"
    /\ recipient_emails = <<>>
    /\ alert_history = <<>>
    /\ saved = <<>>
    /\ sends = <<>>
    /\ raised = <<>>
    /\ processed = 0
    /\ last_target = <<>>
    /\ caller_list = [ref |-> "none", items |-> <<>>]
    /\ pf = [t \in 1..MaxCallers |-> PfIdle]
    /\ twin = [o |-> NewOrch, target |-> <<>>]

\* nothing has been observed yet
ObsInit ==
    /\ read_fails = 0
    /\ cap_release_calls = 0
    /\ joined = {}
    /\ rd_last = [j \in ReaderIds |-> 0]
    /\ last_call = [op |-> "none"]

Init ==
    /\ GrabberInit
    /\ rd = [j \in ReaderIds |-> RdIdle]
    /\ PipelineInit
    /\ ObsInit

\* SurveillanceOrchestrator.initialize: a new FrameGrabber is created and
\* opened (ok: the source opens), then a new ObjectDetector (loads: YOLO loads)
Initialize(ok, loads) ==
    /\ main_pc = "idle"
    /\ frame_grabber' = "FrameGrabber"
    /\ cap' = IF ok THEN "opened" ELSE "closed"
    /\ is_active' = ok
    /\ is_running' = ok
    /\ frame_count' = 0
    /\ frame_errors' = 0
    /\ frame_buffer' = <<>>
    /\ buffer_lock' = Free
    /\ capture_thread' = IF ok THEN 1 ELSE 0
    /\ cap_pc' = [i \in CaptureIds |->
                     IF ok /\ i = 1 THEN "loop" ELSE "unstarted"]
    /\ cap_frame' = [i \in CaptureIds |-> 0]
    /\ cap_live' = [i \in CaptureIds |-> FALSE]
    /\ opens' = IF ok THEN 1 ELSE 0
    /\ pushed' = <<>>
    /\ object_detector' =
           IF ok
           THEN <<NewObjectDetector(config.confidence_threshold, loads)>>
           ELSE object_detector
    /\ UNCHANGED <<next_seq, main_pc, rd, obsVars, now, orch_is_running, config,
                   last_alert_time, detection_history, alertVars, worldVars,
                   historyVars, caller_list, pf, twin>>

\* the frame process_frame obtains from frame_grabber.get_frame()
FrameAvailable ==
    /\ frame_grabber # "None"
    /\ is_active
    /\ buffer_lock = Free
    /\ get_frame_result(frame_buffer).avail

\* the lists self.object_detector.detect(frame) may return
DetectResults ==
    IF object_detector = None
    THEN {}
    ELSE {detect(object_detector[1], raw, rects, fails) :
             raw \in RawOutputs, rects \in 0..1, fails \in BOOLEAN}

\* SurveillanceOrchestrator.process_frame, for a call that obtains a frame
\* (a call that obtains none returns (None, []) and changes nothing)
ProcessFrame(detections, save_ok, smtp_ok) ==
    /\ FrameAvailable
    /\ Len(detection_history) < MaxHistory
    /\ LET frame == get_frame_result(frame_buffer).frame
           target == filter_by_class(detections, config.target_classes)
       IN /\ StoreOrch(IF target # <<>>
                       THEN HandleDetection(OrchNow, frame, target, now,
                                            save_ok, smtp_ok)
                       ELSE OrchNow)
          /\ detection_history' =
                 Append(detection_history, HistoryEntry(now, target))
          /\ processed' = processed + 1
          /\ last_target' = target
    /\ UNCHANGED <<grabberVars, rd, lifeObs, now, frame_grabber, object_detector,
                   orch_is_running, caller_list, pf, twin>>

\* SurveillanceOrchestrator.start
Start ==
    /\ frame_grabber # "None"
    /\ orch_is_running' = TRUE
    /\ UNCHANGED <<grabberVars, rd, obsVars, now, frame_grabber, object_detector,
                   config, last_alert_time, detection_history, alertVars,
                   worldVars, historyVars, caller_list, pf, twin>>

\* SurveillanceOrchestrator.stop, up to the join inside release()
Stop ==
    /\ main_pc = "idle"
    /\ orch_is_running' = FALSE
    /\ IF frame_grabber # "None"
       THEN releaseBegin
       ELSE UNCHANGED grabberVars
    /\ UNCHANGED <<rd, obsVars, now, frame_grabber, object_detector, config,
                   last_alert_time, detection_history, alertVars, worldVars,
                   historyVars, caller_list, pf, twin>>

\* get_stats counting the alerts under total_detections
get_stats_alerts ==
    [is_running |-> orch_is_running,
     total_detections |-> Len(raised),
     last_alert |-> last_alert_time,
     config |-> config]

\* SurveillanceOrchestrator.get_stats
get_stats ==
    [is_running |-> orch_is_running,
     total_detections |-> Len(detection_history),
     last_alert |-> last_alert_time,
     config |-> config]

\* the keyword arguments configure is called with
ConfigUpdates ==
    { <<"alert_cooldown_seconds", 0>>, <<"alert_cooldown_seconds", 30>>,
      <<"save_alert_frames", FALSE>>, <<"save_alert_frames", TRUE>>,
      <<"enable_email_alerts", TRUE>>, <<"enable_email_alerts", FALSE>>,
      <<"verbose", TRUE>> }

\* configure storing every key it is given
configureAnyKey(cfg, key, value) ==
    [k \in DOMAIN cfg \cup {key} |-> IF k = key THEN value ELSE cfg[k]]

\* SurveillanceOrchestrator.configure(key=value): one turn of its loop
configure(cfg, key, value) ==
    IF key \in DOMAIN cfg THEN [cfg EXCEPT ![key] = value] ELSE cfg

\* SurveillanceOrchestrator.configure(**kwargs): the loop over kwargs.items()
RECURSIVE configure_kwargs(_, _)
configure_kwargs(cfg, kwargs) ==
    IF kwargs = <<>>
    THEN cfg
    ELSE configure_kwargs(configure(cfg, kwargs[1][1], kwargs[1][2]),
                          Tail(kwargs))

Configure(kv) ==
    /\ config' = configure(config, kv[1], kv[2])
    /\ UNCHANGED <<grabberVars, rd, obsVars, now, frame_grabber, object_detector,
                   orch_is_running, last_alert_time, detection_history,
                   alertVars, worldVars, historyVars, caller_list, pf, twin>>

\* SurveillanceOrchestrator.set_target_classes
SetTargetClasses ==
    /\ \E classes \in {<<"person">>, <<"person", "car">>} :
           config' = [config EXCEPT !.target_classes = classes]
    /\ UNCHANGED <<grabberVars, rd, obsVars, now, frame_grabber, object_detector,
                   orch_is_running, last_alert_time, detection_history,
                   alertVars, worldVars, historyVars, caller_list, pf, twin>>

RECURSIVE AddRecipients(_, _)
\* set_email_config: for recipient in recipients: add_recipient(recipient)
AddRecipients(a, recipients) ==
    IF recipients = <<>> THEN a
    ELSE AddRecipients(add_recipient(a, Head(recipients)), Tail(recipients))

\* SurveillanceOrchestrator.set_email_config
SetEmailConfig ==
    /\ \E recipients \in {<<>>, <<"guard@example.com">>} :
           LET a == AddRecipients(configure_email(AlertSystemNow,
                                                  "cam@example.com", "secret"),
                                  recipients)
           IN /\ sender_email' = a.sender_email
              /\ sender_password' = a.sender_password
              /\ recipient_emails' = a.recipient_emails
    /\ config' = [config EXCEPT !.enable_email_alerts = TRUE]
    /\ UNCHANGED <<grabberVars, rd, obsVars, now, frame_grabber, object_detector,
                   orch_is_running, last_alert_time, detection_history,
                   alert_history, worldVars, historyVars, caller_list, pf, twin>>

(* ------ FrameGrabber: one acquisition thread, concurrent readers ------- *)
\* no capture thread is running: none was started, or the last one has exited
NoLiveCapture == \A i \in CaptureIds : cap_pc[i] \in {"unstarted", "exited"}

\* the owner opens the grabber when no acquisition thread is alive
Open ==
    \E ok \in BOOLEAN :
        NoLiveCapture /\ open(ok) /\ UNCHANGED <<rd, pipelineVars, obsVars>>
ReleaseBegin == releaseBegin /\ UNCHANGED <<rd, pipelineVars, obsVars>>
ReleaseEnd ==
    \E timeout \in BOOLEAN :
        releaseEnd(timeout) /\ UNCHANGED <<rd, pipelineVars, obsVars>>
Capture ==
    \E i \in CaptureIds :
        /\ \/ CaptureLoop(i)
           \/ \E ret \in BOOLEAN : CaptureRead(i, ret)
           \/ CaptureAppend(i)
           \/ CaptureCount(i)
           \/ CaptureSleep(i)
        /\ UNCHANGED <<rd, pipelineVars, obsVars>>
GetFrame ==
    \E j \in ReaderIds :
        (GetFrameCall(j) \/ GetFrameRead(j)) /\ UNCHANGED <<pipelineVars, obsVars>>
GetBufferedFrames ==
    \E j \in ReaderIds :
        (GetBufferedCall(j) \/ GetBufferedRead(j)) /\ UNCHANGED <<pipelineVars, obsVars>>
Return == \E j \in ReaderIds : ReaderReturn(j) /\ UNCHANGED <<pipelineVars, obsVars>>

NextGrabber ==
    \/ Open
    \/ ReleaseBegin
    \/ ReleaseEnd
    \/ Capture
    \/ GetFrame
    \/ GetBufferedFrames
    \/ Return

SpecGrabber == Init /\ [][NextGrabber]_vars

(* ------------- FrameGrabber: one consumer calling get_frame ------------ *)
\* the one consumer thread
Consumer == CHOOSE j \in ReaderIds : TRUE

\* the consumer takes the returned value; the frame of its last successful
\* get_frame is remembered
ReturnSeen ==
    /\ ReaderReturn(Consumer)
    /\ rd_last' = [rd_last EXCEPT ![Consumer] =
                       IF rd[Consumer].op = "get_frame" /\ rd[Consumer].avail
                       THEN rd[Consumer].frame
                       ELSE rd_last[Consumer]]
    /\ UNCHANGED <<pipelineVars, read_fails, cap_release_calls, joined, last_call>>

ConsumerGetFrame ==
    /\ GetFrameCall(Consumer) \/ GetFrameRead(Consumer)
    /\ UNCHANGED <<pipelineVars, obsVars>>

NextConsumer ==
    \/ Open
    \/ ReleaseBegin
    \/ ReleaseEnd
    \/ Capture
    \/ ConsumerGetFrame
    \/ ReturnSeen

SpecConsumer == Init /\ [][NextConsumer]_vars

(* ------- FrameGrabber: any sequence of open() and release() ------------ *)
\* counting up to "several"
Bump(n) == IF n >= 2 THEN 2 ELSE n + 1

\* open() at any time; it creates a new VideoCapture handle, on which
\* cap.release() has not been called
OpenAny ==
    \E ok \in BOOLEAN :
        /\ open(ok)
        /\ cap_release_calls' = 0
        /\ UNCHANGED <<rd, pipelineVars, read_fails, joined, rd_last, last_call>>

\* release() returns: it called cap.release() if there is a handle, and every
\* thread started so far was started before a release() that has returned
ReleaseEndSeen ==
    \E timeout \in BOOLEAN :
        /\ releaseEnd(timeout)
        /\ cap_release_calls' = IF cap # "None"
                                THEN Bump(cap_release_calls)
                                ELSE cap_release_calls
        /\ joined' = 1..opens
        /\ UNCHANGED <<rd, pipelineVars, read_fails, rd_last, last_call>>

\* the capture threads, with the failed reads since the last push counted
CaptureSeen ==
    \E i \in CaptureIds :
        /\ \/ CaptureLoop(i) /\ UNCHANGED read_fails
           \/ \E ret \in BOOLEAN :
                  /\ CaptureRead(i, ret)
                  /\ read_fails' = IF ret THEN read_fails ELSE Bump(read_fails)
           \/ CaptureAppend(i) /\ UNCHANGED read_fails
           \/ CaptureCount(i) /\ read_fails' = 0
           \/ CaptureSleep(i) /\ UNCHANGED read_fails
        /\ UNCHANGED <<rd, pipelineVars, cap_release_calls, joined, rd_last,
                       last_call>>

NextLifecycle == OpenAny \/ ReleaseBegin \/ ReleaseEndSeen \/ CaptureSeen
SpecLifecycle == Init /\ [][NextLifecycle]_vars

(* ------------- FrameGrabber: released and opened again ---------------- *)
\* release() returns
ReleaseEndMarked ==
    /\ \E timeout \in BOOLEAN : releaseEnd(timeout)
    /\ last_call' = [op |-> "release"]
    /\ UNCHANGED <<rd, pipelineVars, lifeObs>>

\* open() when no acquisition thread is alive. A successful open() is
\* remembered with the number of frames pushed before it, whether a release()
\* came before it, and the get_frame calls under way at that moment.
OpenMarked ==
    \E ok \in BOOLEAN :
        /\ NoLiveCapture
        /\ open(ok)
        /\ last_call' = IF ok
                        THEN [op |-> "open",
                              mark |-> Len(pushed),
                              reopen |-> last_call.op = "release",
                              under_way |-> {j \in ReaderIds : rd[j].pc # "idle"}]
                        ELSE last_call
        /\ UNCHANGED <<rd, pipelineVars, lifeObs>>

\* a get_frame call is over
ReturnMarked ==
    \E j \in ReaderIds :
        /\ ReaderReturn(j)
        /\ last_call' = IF last_call.op = "open"
                        THEN [last_call EXCEPT !.under_way = @ \ {j}]
                        ELSE last_call
        /\ UNCHANGED <<pipelineVars, lifeObs>>

NextReopen ==
    \/ OpenMarked
    \/ ReleaseBegin
    \/ ReleaseEndMarked
    \/ Capture
    \/ GetFrame
    \/ ReturnMarked

SpecReopen == Init /\ [][NextReopen]_vars

(* ------- FrameGrabber: the owner thread and its acquisition thread ----- *)
NextRelease == Open \/ ReleaseBegin \/ ReleaseEnd \/ Capture

\* the thread inside release() keeps running: join(timeout=2.0) and
\* cap.release() are its own steps.  Nothing is assumed of the capture
\* thread, which may stay inside cap.read() forever.
SpecRelease == Init /\ [][NextRelease]_vars /\ WF_vars(ReleaseEnd)

\* _capture_frames, one whole iteration of the loop with a successful read:
\* read, append under the lock, count
CaptureIteration(i) ==
    /\ cap_pc[i] = "loop"
    /\ is_running /\ cap = "opened"
    /\ next_seq <= MaxFrames
    /\ buffer_lock = Free
    /\ frame_buffer' = DequeAppend(frame_buffer,
                                   [ret |-> TRUE, frame |-> next_seq],
                                   BufferSize)
    /\ pushed' = Append(pushed, next_seq)
    /\ frame_count' = frame_count + 1
    /\ next_seq' = next_seq + 1
    /\ UNCHANGED <<frame_errors, cap, is_active, is_running, buffer_lock, capture_thread,
                   cap_pc, cap_frame, cap_live, main_pc, opens>>

(* --------------- the pipeline driven by one caller thread --------------- *)
\* the caller initializes the orchestrator once
InitializeOnce ==
    \E ok, loads \in BOOLEAN : frame_grabber = "None" /\ Initialize(ok, loads)

CaptureFrame ==
    \E i \in CaptureIds : CaptureIteration(i) /\ UNCHANGED <<rd, pipelineVars, obsVars>>

Process ==
    \E detections \in DetectResults, save_ok, smtp_ok \in BOOLEAN :
        ProcessFrame(detections, save_ok, smtp_ok) /\ UNCHANGED last_call

Next ==
    \/ InitializeOnce
    \/ CaptureFrame
    \/ Process
    \/ Tick
    \/ SetEmailConfig

Spec == Init /\ [][Next]_vars

(* ------------------ the AlertSystem called directly -------------------- *)
StoreAlertSystem(a) ==
    /\ sender_email' = a.sender_email
    /\ sender_password' = a.sender_password
    /\ recipient_emails' = a.recipient_emails
    /\ alert_history' = a.alert_history
    /\ saved' = a.saved
    /\ sends' = a.sends

ConfigureEmail ==
    /\ \E email \in {"", "cam@example.com"} :
           StoreAlertSystem(configure_email(AlertSystemNow, email, "secret"))
    /\ UNCHANGED <<grabberVars, rd, obsVars, now, orchVars, historyVars, caller_list,
                   pf, twin>>

AddRecipient ==
    /\ \E email \in {"guard@example.com", "owner@example.com"} :
           StoreAlertSystem(add_recipient(AlertSystemNow, email))
    /\ UNCHANGED <<grabberVars, rd, obsVars, now, orchVars, historyVars, caller_list,
                   pf, twin>>

SendAlertEmail ==
    /\ Len(sends) < MaxCalls
    /\ \E smtp_ok \in BOOLEAN :
           StoreAlertSystem(
               send_alert_email(AlertSystemNow,
                                AlertSubject(<<Det("person", 90)>>),
                                create_alert_message(<<Det("person", 90)>>, now),
                                None, now, smtp_ok).a)
    /\ UNCHANGED <<grabberVars, rd, obsVars, now, orchVars, historyVars, caller_list,
                   pf, twin>>

GetAlertHistory ==
    /\ caller_list' = get_alert_history(alert_history)
    /\ UNCHANGED <<grabberVars, rd, obsVars, now, orchVars, alertVars, worldVars,
                   historyVars, pf, twin>>

\* what a caller may do to a list it holds: clear(), pop(), reverse()
ListMutations(items) ==
    { <<>>,
      SubSeq(items, 1, Len(items) - 1),
      [k \in 1..Len(items) |-> items[Len(items) + 1 - k]] }

\* the caller changes the list it got from get_alert_history; if that list is
\* the stored list itself, the stored history changes with it
CallerMutates ==
    /\ caller_list.ref # "none"
    /\ \E items \in ListMutations(caller_list.items) :
        /\ items # caller_list.items
        /\ caller_list' = [caller_list EXCEPT !.items = items]
        /\ IF caller_list.ref = "stored"
           THEN alert_history' = items
           ELSE UNCHANGED alert_history
    /\ UNCHANGED <<grabberVars, rd, obsVars, now, orchVars, sender_email,
                   sender_password, recipient_emails, worldVars, historyVars,
                   pf, twin>>

NextAlertSystem ==
    \/ ConfigureEmail
    \/ AddRecipient
    \/ SendAlertEmail
    \/ GetAlertHistory
    \/ CallerMutates
    \/ Tick

SpecAlertSystem == Init /\ [][NextAlertSystem]_vars

(* ------------- process_frame called by several threads ----------------- *)
CallerIds == 1..MaxCallers

\* calls of process_frame begun so far
Begun == Len(detection_history)
           + Cardinality({t \in CallerIds : pf[t].pc # "idle"})

\* process_frame, lines 80-94: get_frame, detect, filter_by_class
ProcessBegin(t, detections) ==
    /\ pf[t].pc = "idle"
    /\ FrameAvailable
    /\ Begun < MaxHistory
    /\ LET target == filter_by_class(detections, config.target_classes)
       IN pf' = [pf EXCEPT ![t] =
                    [pc |-> IF target # <<>> THEN "check" ELSE "record",
                     frame |-> get_frame_result(frame_buffer).frame,
                     target |-> target]]
    /\ UNCHANGED <<grabberVars, rd, obsVars, now, orchVars, alertVars, worldVars,
                   historyVars, caller_list, twin>>

\* _handle_detection, lines 110-113: the cooldown test
HandleCheck(t) ==
    /\ pf[t].pc = "check"
    /\ pf' = [pf EXCEPT ![t].pc =
                 IF InCooldown(OrchNow, now) THEN "record" ELSE "set"]
    /\ UNCHANGED <<grabberVars, rd, obsVars, now, orchVars, alertVars, worldVars,
                   historyVars, caller_list, twin>>

\* _handle_detection, line 115
HandleSet(t) ==
    /\ pf[t].pc = "set"
    /\ StoreOrch(SetLastAlert(OrchNow, now))
    /\ pf' = [pf EXCEPT ![t].pc = "notify"]
    /\ UNCHANGED <<grabberVars, rd, obsVars, now, frame_grabber, object_detector,
                   orch_is_running, detection_history, processed, last_target,
                   caller_list, twin>>

\* _handle_detection, lines 117-135
HandleNotify(t, save_ok, smtp_ok) ==
    /\ pf[t].pc = "notify"
    /\ StoreOrch(SaveAndSend(OrchNow, pf[t].frame, pf[t].target, now,
                             save_ok, smtp_ok))
    /\ pf' = [pf EXCEPT ![t].pc = "record"]
    /\ UNCHANGED <<grabberVars, rd, obsVars, now, frame_grabber, object_detector,
                   orch_is_running, detection_history, processed, last_target,
                   caller_list, twin>>

\* process_frame, lines 97-105: append to detection_history, return
ProcessRecord(t) ==
    /\ pf[t].pc = "record"
    /\ detection_history' =
           Append(detection_history, HistoryEntry(now, pf[t].target))
    /\ processed' = processed + 1
    /\ last_target' = pf[t].target
    /\ pf' = [pf EXCEPT ![t] = PfIdle]
    /\ UNCHANGED <<grabberVars, rd, obsVars, now, frame_grabber, object_detector,
                   orch_is_running, config, last_alert_time, alertVars,
                   worldVars, raised, caller_list, twin>>

ThreadBegin ==
    \E t \in CallerIds, detections \in DetectResults :
        ProcessBegin(t, detections)
ThreadCheck == \E t \in CallerIds : HandleCheck(t)
ThreadSet == \E t \in CallerIds : HandleSet(t)
ThreadNotify ==
    \E t \in CallerIds, save_ok, smtp_ok \in BOOLEAN :
        HandleNotify(t, save_ok, smtp_ok)
ThreadRecord == \E t \in CallerIds : ProcessRecord(t)

NextThreads ==
    \/ InitializeOnce
    \/ CaptureFrame
    \/ Tick
    \/ ThreadBegin
    \/ ThreadCheck
    \/ ThreadSet
    \/ ThreadNotify
    \/ ThreadRecord

SpecThreads == Init /\ [][NextThreads]_vars

(* ------ two orchestrators given detections at the same times ----------- *)
\* non-empty filtered detection lists
TargetLists ==
    { <<Det("person", 90)>>, <<Det("car", 80)>>,
      <<Det("car", 80), Det("person", 90)>> }

\* both orchestrators handle a detection at the same time, each with its own
\* non-empty list
PairDetect ==
    /\ processed < MaxHistory
    /\ \E first, second \in TargetLists, save_ok, smtp_ok \in BOOLEAN :
        /\ StoreOrch(HandleDetection(OrchNow, processed + 1, first, now,
                                     save_ok, smtp_ok))
        /\ twin' = [o |-> HandleDetection(twin.o, processed + 1, second, now,
                                          save_ok, smtp_ok),
                    target |-> second]
        /\ last_target' = first
    /\ processed' = processed + 1
    /\ UNCHANGED <<grabberVars, rd, obsVars, now, frame_grabber, object_detector,
                   orch_is_running, detection_history, caller_list, pf>>

\* both orchestrators are given the same cooldown
PairConfigure ==
    /\ \E kv \in {u \in ConfigUpdates : u[1] = "alert_cooldown_seconds"} :
        /\ config' = configure(config, kv[1], kv[2])
        /\ twin' = [twin EXCEPT !.o.config = configure(@, kv[1], kv[2])]
    /\ UNCHANGED <<grabberVars, rd, obsVars, now, frame_grabber, object_detector,
                   orch_is_running, last_alert_time, detection_history,
                   alertVars, worldVars, historyVars, caller_list, pf>>

NextPair == PairDetect \/ PairConfigure \/ Tick

SpecPair == Init /\ [][NextPair]_vars

(* ------------------- recipients added one call after another ----------- *)
\* addresses callers give, and the lists set_email_config is called with
Addresses == {"guard@example.com", "owner@example.com", "desk@example.com"}
RecipientLists == UNION { [1..n -> Addresses] : n \in 0..2 }

\* the addresses given to add_recipient so far, in call order, and the
\* number of calls that gave them
AddedSoFar == IF last_call.op = "recipients" THEN last_call.added ELSE <<>>
AddCalls == IF last_call.op = "recipients" THEN last_call.calls ELSE 0

\* everything these calls leave alone
besideRecipients ==
    <<grabberVars, rd, now, frame_grabber, object_detector, orch_is_running,
      last_alert_time, detection_history, alert_history, worldVars,
      historyVars, caller_list, pf, twin, lifeObs>>

\* alert_system.add_recipient(email)
AddRecipientCall ==
    /\ AddCalls < MaxCalls
    /\ \E email \in Addresses :
           /\ recipient_emails' =
                  add_recipient(AlertSystemNow, email).recipient_emails
           /\ last_call' = [op |-> "recipients", calls |-> AddCalls + 1,
                            added |-> Append(AddedSoFar, email)]
    /\ UNCHANGED <<besideRecipients, sender_email, sender_password, config>>

\* orchestrator.set_email_config(sender_email, sender_password, recipients)
SetEmailConfigCall ==
    /\ AddCalls < MaxCalls
    /\ \E recipients \in RecipientLists :
           LET a == AddRecipients(configure_email(AlertSystemNow,
                                                  "cam@example.com", "secret"),
                                  recipients)
           IN /\ sender_email' = a.sender_email
              /\ sender_password' = a.sender_password
              /\ recipient_emails' = a.recipient_emails
              /\ last_call' = [op |-> "recipients", calls |-> AddCalls + 1,
                               added |-> AddedSoFar \o recipients]
    /\ config' = [config EXCEPT !.enable_email_alerts = TRUE]
    /\ UNCHANGED besideRecipients

NextRecipients == AddRecipientCall \/ SetEmailConfigCall

SpecRecipients == Init /\ [][NextRecipients]_vars

(* --------------- the orchestrator's configuration calls ----------------- *)
\* keyword arguments a caller may give to configure: recognized keys with
\* values of any size, and a key the configuration does not have
KwargPool ==
    { <<"confidence_threshold", 80>>, <<"confidence_threshold", 150>>,
      <<"alert_cooldown_seconds", 0>>, <<"alert_cooldown_seconds", -1>>,
      <<"target_classes", <<"car">>>>, <<"verbose", TRUE>> }

\* **kwargs: up to MaxKwargs arguments with different names
KwargLists ==
    { kw \in UNION { [1..n -> KwargPool] : n \in 0..MaxKwargs } :
          \A k, l \in 1..Len(kw) : k # l => kw[k][1] # kw[l][1] }

\* everything but the configuration and the last call
besideConfig ==
    <<grabberVars, rd, now, frame_grabber, object_detector, orch_is_running,
      last_alert_time, detection_history, alertVars, worldVars, historyVars,
      caller_list, pf, twin, lifeObs>>

\* orchestrator.configure(**kwargs)
ConfigureCall ==
    /\ \E kwargs \in KwargLists :
           /\ config' = configure_kwargs(config, kwargs)
           /\ last_call' = [op |-> "configure", kwargs |-> kwargs]
    /\ UNCHANGED besideConfig

\* orchestrator.set_target_classes(classes)
SetTargetClassesCall ==
    /\ \E classes \in {<<"person">>, <<"person", "car">>, <<>>} :
           /\ config' = [config EXCEPT !.target_classes = classes]
           /\ last_call' = [op |-> "set_target_classes", classes |-> classes]
    /\ UNCHANGED besideConfig

NextConfig == ConfigureCall \/ SetTargetClassesCall

SpecConfig == Init /\ [][NextConfig]_vars

(* ------------- the pipeline reconfigured while it is in use ------------- *)
\* configure calls of a caller that tunes a running pipeline
Reconfigure ==
    \E kv \in { <<"confidence_threshold", 95>>, <<"alert_cooldown_seconds", 0>>,
                <<"enable_email_alerts", TRUE>> } :
        Configure(kv)

NextReconfigure ==
    \/ InitializeOnce
    \/ Start
    \/ CaptureFrame
    \/ Process
    \/ Reconfigure
    \/ SetTargetClasses

SpecReconfigure == Init /\ [][NextReconfigure]_vars

(* ------- the pipeline configured for e-mail alerts, then run ------------ *)
\* the caller switches e-mail alerts on and chooses the target classes
\* before it initializes the orchestrator
EnableEmailAlerts ==
    frame_grabber = "None" /\ Configure(<<"enable_email_alerts", TRUE>>)

ChooseTargetClasses == frame_grabber = "None" /\ SetTargetClasses

NextAlertText ==
    \/ EnableEmailAlerts
    \/ ChooseTargetClasses
    \/ InitializeOnce
    \/ CaptureFrame
    \/ Process
    \/ Tick

SpecAlertText == Init /\ [][NextAlertText]_vars

(* ------------ the pipeline polled for frames, alerts observed ----------- *)
\* before initializing, the caller may switch frame saving off, switch the
\* cooldown off and switch e-mail alerts on
ChooseNoSaving ==
    frame_grabber = "None" /\ Configure(<<"save_alert_frames", FALSE>>)

ChooseNoCooldown ==
    frame_grabber = "None" /\ Configure(<<"alert_cooldown_seconds", 0>>)

\* process_frame, for a call that obtains a frame; what the call was given
\* is remembered: the frame, the number of frames pushed so far, and
\* whether writing the alert frame can succeed
ProcessSeen ==
    \E detections \in DetectResults, save_ok, smtp_ok \in BOOLEAN :
        /\ ProcessFrame(detections, save_ok, smtp_ok)
        /\ last_call' = [op |-> "process_frame",
                         frame |-> get_frame_result(frame_buffer).frame,
                         pushes |-> Len(pushed),
                         save_ok |-> save_ok]

NextEvidence ==
    \/ ChooseNoSaving
    \/ ChooseNoCooldown
    \/ EnableEmailAlerts
    \/ InitializeOnce
    \/ CaptureFrame
    \/ ProcessSeen
    \/ Tick

SpecEvidence == Init /\ [][NextEvidence]_vars

(* ------------- the pipeline run, then asked for its statistics --------- *)
\* the caller has not asked for the statistics yet
BeforeStats == last_call.op # "get_stats"

\* any operation of the pipeline
RunStep ==
    /\ BeforeStats
    /\ \/ InitializeOnce
       \/ Start
       \/ CaptureFrame
       \/ Process
       \/ Tick

\* stats = orchestrator.get_stats()
GetStats ==
    /\ BeforeStats
    /\ last_call' = [op |-> "get_stats", result |-> get_stats]
    /\ UNCHANGED <<grabberVars, rd, pipelineVars, lifeObs>>

NextStats == RunStep \/ GetStats

SpecStats == Init /\ [][NextStats]_vars

(* --------------------- the pipeline run, then stopped ------------------- *)
\* stop() has returned at least once
Stopped == last_call.op = "stop"

\* orchestrator.stop() returns when release() does
StopEnd ==
    /\ \E timeout \in BOOLEAN : releaseEnd(timeout)
    /\ last_call' = [op |-> "stop"]
    /\ UNCHANGED <<rd, pipelineVars, lifeObs>>

\* initialize() and start() are called by the thread that calls stop(), and
\* before it stops the pipeline; stop() is called on an initialized
\* orchestrator
NextStop ==
    \/ ~Stopped /\ main_pc = "idle" /\ InitializeOnce
    \/ ~Stopped /\ main_pc = "idle" /\ Start
    \/ Capture
    \/ Process
    \/ frame_grabber # "None" /\ Stop
    \/ StopEnd

SpecStop == Init /\ [][NextStop]_vars

(* -------- the pipeline run on a source with a person in one frame ------- *)
\* the frame of the source that shows a person: the middle one
PersonFrame == (MaxFrames + 1) \div 2

\* what the model reports for a frame of that source
SceneOutput(frame) ==
    IF frame = PersonFrame THEN <<Det("person", 90)>> ELSE <<>>

\* the caller sets the cooldown of the scenario, keeps the default
\* threshold and target classes, and initializes on a source that opens
SceneConfigure ==
    /\ frame_grabber = "None"
    /\ config.alert_cooldown_seconds # 5
    /\ Configure(<<"alert_cooldown_seconds", 5>>)

SceneInitialize ==
    /\ frame_grabber = "None"
    /\ config.alert_cooldown_seconds = 5
    /\ Initialize(TRUE, TRUE)

\* process_frame on the latest frame of the source
SceneProcess ==
    /\ FrameAvailable
    /\ \E save_ok, smtp_ok \in BOOLEAN :
           ProcessFrame(detect(object_detector[1],
                               SceneOutput(get_frame_result(frame_buffer).frame),
                               0, FALSE),
                        save_ok, smtp_ok)
    /\ UNCHANGED last_call

NextScene ==
    \/ SceneConfigure
    \/ SceneInitialize
    \/ CaptureFrame
    \/ SceneProcess
    \/ Tick

SpecScene == Init /\ [][NextScene]_vars

(* ------------ the ObjectDetector called directly, frame by frame -------- *)
\* the boxes the model can report for a frame, and the lists of them
DetPool ==
    { Det("person", 90), Det("car", 30), Det("person", 60), Det("car", 80),
      Det("person", 40), Det("person", 50) }
RawLists == UNION { [1..n -> DetPool] : n \in 0..MaxDets }

\* values of confidence_threshold and class lists given by callers
Thresholds == {30, 50, 90}
ClassLists == { <<>>, <<"person">>, <<"person", "car">>, <<"motion">> }

\* everything but the detector and the last call
besideDetector ==
    <<grabberVars, rd, now, frame_grabber, orch_is_running, config,
      last_alert_time, detection_history, alertVars, worldVars, historyVars,
      caller_list, pf, twin, lifeObs>>

\* ObjectDetector(model_name, confidence_threshold)
CreateDetector ==
    /\ \E threshold \in Thresholds, loads \in BOOLEAN :
           object_detector' = <<NewObjectDetector(threshold, loads)>>
    /\ last_call' = [op |-> "ObjectDetector"]
    /\ UNCHANGED besideDetector

\* detections = object_detector.detect(frame).  One frame is handled per
\* detector: detect keeps nothing from one frame to the next.
DetectCall ==
    /\ object_detector # None
    /\ last_call.op \in {"ObjectDetector", "set_confidence_threshold"}
    /\ \E raw \in RawLists, rects \in 0..MaxDets, fails \in BOOLEAN :
           \* rects and fails matter to one kind of detector each
           /\ (object_detector[1].model = "None") => (raw = <<>> /\ ~fails)
           /\ (object_detector[1].model # "None") => rects = 0
           /\ fails => raw = <<>>
           /\ last_call' = [op |-> "detect", d |-> object_detector[1],
                            raw |-> raw, rects |-> rects, fails |-> fails,
                            result |-> detect(object_detector[1], raw, rects,
                                              fails)]
    /\ UNCHANGED <<object_detector, besideDetector>>

\* object_detector.filter_by_class(detections, class_names) on the list
\* detect has just returned, as process_frame calls it
FilterCall ==
    /\ last_call.op = "detect"
    /\ \E class_names \in ClassLists :
           last_call' = [op |-> "filter_by_class", d |-> last_call.d,
                         raw |-> last_call.raw, fails |-> last_call.fails,
                         detections |-> last_call.result,
                         class_names |-> class_names,
                         result |-> filter_by_class(last_call.result,
                                                    class_names)]
    /\ UNCHANGED <<object_detector, besideDetector>>

\* object_detector.set_confidence_threshold(threshold)
SetConfidenceThreshold ==
    /\ object_detector # None
    /\ \E threshold \in Thresholds \cup {-10, 150} :
           object_detector' =
               <<set_confidence_threshold(object_detector[1], threshold)>>
    /\ last_call' = [op |-> "set_confidence_threshold"]
    /\ UNCHANGED besideDetector

NextDetector ==
    CreateDetector \/ DetectCall \/ FilterCall \/ SetConfidenceThreshold

SpecDetector == Init /\ [][NextDetector]_vars

(* ------------------------- claims: FrameGrabber ------------------------ *)
Frames(buf) == [k \in 1..Len(buf) |-> buf[k].frame]
LastN(s, n) == SubSeq(s, Len(s) - n + 1, Len(s))
PushedUpTo(n) == {pushed[k] : k \in 1..n}
Returned(j, op) == rd[j].pc = "returned" /\ rd[j].op = op

\* C8: once more than buffer_size frames have been pushed, the buffer, and
\* every list get_buffered_frames returns, holds exactly the most recent
\* buffer_size pushed frames in insertion order, oldest first.
C8_BufferKeepsMostRecent ==
    /\ Len(pushed) > BufferSize
        => Frames(frame_buffer) = LastN(pushed, BufferSize)
    /\ \A j \in ReaderIds :
        (Returned(j, "get_buffered_frames") /\ rd[j].pushes > BufferSize)
        => Frames(rd[j].frames)
             = LastN(SubSeq(pushed, 1, rd[j].pushes), BufferSize)

\* C8 witness: get_buffered_frames returned a full buffer after more than
\* buffer_size pushes.
C8_Witness ==
    \E j \in ReaderIds :
        /\ Returned(j, "get_buffered_frames")
        /\ rd[j].pushes > BufferSize
        /\ Len(rd[j].frames) = BufferSize

\* C9: the buffer never holds more than buffer_size frames, and every frame a
\* reader obtains from get_frame or get_buffered_frames is a complete entry
\* (ret = True) that a completed push had inserted before the read.
C9_BoundedAndConsistent ==
    /\ Len(frame_buffer) <= BufferSize
    /\ \A j \in ReaderIds :
        /\ (Returned(j, "get_frame") /\ rd[j].avail)
            => rd[j].frame \in PushedUpTo(rd[j].pushes)
        /\ Returned(j, "get_buffered_frames")
            => \A k \in 1..Len(rd[j].frames) :
                 /\ rd[j].frames[k].ret
                 /\ rd[j].frames[k].frame \in PushedUpTo(rd[j].pushes)

\* C9 witness: a reader obtained a frame from a full buffer while a capture
\* thread is between its read and its push.
C9_Witness ==
    /\ Len(frame_buffer) = BufferSize
    /\ \E i \in CaptureIds : cap_pc[i] = "lock"
    /\ \E j \in ReaderIds : Returned(j, "get_frame") /\ rd[j].avail

\* C10 as stated: get_frame after zero pushes returns available = false, and
\* after at least one push returns available = true with the latest pushed
\* frame.
C10_Original ==
    \A j \in ReaderIds :
        Returned(j, "get_frame")
        => /\ rd[j].pushes = 0 => ~rd[j].avail
           /\ rd[j].pushes >= 1
               => (rd[j].avail /\ rd[j].frame = rd[j].latest)

\* C10 amended: get_frame after zero pushes returns available = false; after
\* at least one push, a call that finds the grabber active (is_active true)
\* returns available = true with the frame most recently pushed when the
\* buffer is read; a call that finds it inactive returns available = false.
C10_LatestWhileActive ==
    \A j \in ReaderIds :
        Returned(j, "get_frame")
        => /\ rd[j].pushes = 0 => ~rd[j].avail
           /\ (rd[j].pushes >= 1 /\ rd[j].active)
               => (rd[j].avail /\ rd[j].frame = rd[j].latest)
           /\ ~rd[j].active => ~rd[j].avail

\* C10 witness: get_frame returned the latest of several pushed frames.
C10_Witness ==
    \E j \in ReaderIds :
        /\ Returned(j, "get_frame")
        /\ rd[j].pushes >= 2
        /\ rd[j].avail
        /\ rd[j].frame = pushed[rd[j].pushes]

\* a consumer waits for buffer_lock only while a capture thread is inside its
\* with block, past the append, where it takes one more step and lets go
WaitsOnlyForAppend ==
    \A j \in ReaderIds :
        (rd[j].pc = "lock" /\ buffer_lock # Free)
        => \E i \in CaptureIds :
               buffer_lock = CapThread(i) /\ cap_pc[i] = "count"

\* the buffer is never emptied: it holds a frame from the first push on
NonEmptyOncePushed == (pushed # <<>>) <=> (frame_buffer # <<>>)

\* C11 as stated: get_frame does not block, returns available = false if the
\* buffer is empty or the source was never opened, and in every other state
\* (the buffer holds at least one frame) returns the latest buffered frame.
C11_Original ==
    /\ WaitsOnlyForAppend
    /\ NonEmptyOncePushed
    /\ \A j \in ReaderIds :
        Returned(j, "get_frame")
        => IF rd[j].pushes = 0
           THEN ~rd[j].avail
           ELSE rd[j].avail /\ rd[j].frame = rd[j].latest

\* C11 amended: get_frame waits for nothing but the lock around one append and
\* returns available = false if the buffer is empty or the call finds the
\* grabber inactive (never opened, open failed, or released); a call that
\* finds it active while the buffer holds a frame returns the latest frame.
C11_LatestUnlessInactive ==
    /\ WaitsOnlyForAppend
    /\ NonEmptyOncePushed
    /\ \A j \in ReaderIds :
        Returned(j, "get_frame")
        => IF rd[j].pushes = 0 \/ ~rd[j].active
           THEN ~rd[j].avail
           ELSE rd[j].avail /\ rd[j].frame = rd[j].latest

\* C11 witness: get_frame on a released grabber whose buffer still holds
\* frames returned available = false.
C11_Witness ==
    \E j \in ReaderIds :
        /\ Returned(j, "get_frame")
        /\ ~rd[j].active
        /\ rd[j].pushes >= 1
        /\ frame_buffer # <<>>
        /\ ~rd[j].avail

C13_LockOnlyAroundAppend ==
    /\ \A i \in CaptureIds :
        /\ buffer_lock = CapThread(i) => cap_pc[i] = "count"
        /\ cap_pc[i] \in {"loop", "read", "sleep", "lock", "exited"}
               => buffer_lock # CapThread(i)
        /\ (cap_pc[i] = "lock" /\ buffer_lock # Free)
               => \E k \in CaptureIds \ {i} :
                      buffer_lock = CapThread(k) /\ cap_pc[k] = "count"
    /\ WaitsOnlyForAppend

\* C13 witness: after a push, the capture thread is inside cap.read() while a
\* consumer is at the lock, which is free.
C13_Witness ==
    /\ pushed # <<>>
    /\ buffer_lock = Free
    /\ \E i \in CaptureIds : cap_pc[i] = "read"
    /\ \E j \in ReaderIds : rd[j].pc = "lock"

(* ---------------- claims: FrameGrabber open and release ---------------- *)
\* a step of open(): the caller is outside release() and a new handle appears
OpenStep ==
    /\ main_pc = "idle" /\ main_pc' = "idle"
    /\ <<cap, cap_release_calls, opens>>' # <<cap, cap_release_calls, opens>>
OpenFailed == OpenStep /\ opens' = opens
OpenSucceeded == OpenStep /\ opens' = opens + 1

\* C14: an open() whose source cannot be opened starts no acquisition loop and
\* leaves is_active and is_running as they were (False on a grabber that was
\* never opened, on which no frame is ever pushed); an open() that succeeds
\* has started the acquisition loop.
C14_FailedOpenStartsNothing ==
    [][/\ OpenFailed
           => UNCHANGED <<is_active, is_running, capture_thread, cap_pc,
                          frame_buffer, frame_count>>
       /\ OpenSucceeded
           => /\ is_active' /\ is_running'
              /\ cap_pc[capture_thread'] = "unstarted"
              /\ cap_pc'[capture_thread'] = "loop"
       /\ opens' = 0
           => /\ ~is_active' /\ ~is_running'
              /\ frame_buffer' = <<>> /\ frame_count' = 0
              /\ \A i \in CaptureIds : cap_pc'[i] = "unstarted"
      ]_vars

\* C14 witness: open() failed on a grabber that was never opened.
C14_Witness ==
    /\ cap = "closed"
    /\ opens = 0
    /\ main_pc = "idle"
    /\ ~is_active /\ ~is_running

\* the acquisition threads that have been started and have not exited
AliveThreads == {i \in CaptureIds : cap_pc[i] \notin {"unstarted", "exited"}}

\* C15: at most one acquisition thread is alive per FrameGrabber, for every
\* sequence of open() and release() calls.
C15_OneAcquisitionThread == Cardinality(AliveThreads) <= 1

\* a step of release(): only release() moves its caller in or out of the join
ReleaseStep == main_pc' # main_pc

\* release() on a grabber that is already released (cap.release() was called
\* on the current handle) or that never had a handle
RepeatedRelease == ReleaseStep /\ (cap_release_calls >= 1 \/ cap = "None")

\* C16 as stated: a second release(), and a release() on a grabber that was
\* never opened, changes no FrameGrabber state and does not release the
\* capture handle again.
C16_Original ==
    [][RepeatedRelease
        => UNCHANGED <<cap, is_active, is_running, frame_count, frame_buffer,
                       buffer_lock, capture_thread, cap_pc,
                       cap_release_calls>>]_vars

\* C16 amended: a second release(), and a release() on a grabber that was
\* never opened, changes no FrameGrabber field (the second release() does
\* call cap.release() on the released handle again).
C16_ReleaseIdempotent ==
    [][RepeatedRelease
        => UNCHANGED <<cap, is_active, is_running, frame_count, frame_buffer,
                       buffer_lock, capture_thread, cap_pc>>]_vars

\* C16 witness: release() has returned a second time on the same handle.
C16_Witness ==
    /\ main_pc = "idle"
    /\ cap_release_calls >= 2
    /\ cap = "closed" /\ ~is_active /\ ~is_running

\* C17: release() always returns: whatever the acquisition thread does, also
\* if it stays inside cap.read() forever, the caller of release() leaves the
\* join after its bounded timeout and completes.
C17_ReleaseReturns == (main_pc = "join") ~> (main_pc = "idle")

\* C17 witness: release() has returned while the acquisition thread it joined
\* is still inside cap.read().
C17_Witness ==
    /\ main_pc = "idle"
    /\ ~is_running
    /\ cap = "closed"
    /\ capture_thread # 0
    /\ cap_pc[capture_thread] = "read"

\* C18: once release() has returned, an acquisition thread started before it
\* has exited or exits when its pending read returns: it never begins another
\* loop iteration.
C18_NoLeakedThread ==
    [][\A i \in joined : ~(cap_pc[i] = "loop" /\ cap_pc'[i] = "read")]_vars

\* the stop signal is set, release() has returned and open() has not been
\* called since (cap.release() was called on the current handle)
Released == main_pc = "idle" /\ ~is_running /\ cap_release_calls >= 1

\* C19: after the stop signal has been set and release() has returned,
\* frame_buffer and frame_count do not change unless open() is called again.
C19_NoPushAfterRelease ==
    [][(Released /\ ~OpenStep) => UNCHANGED <<frame_buffer, frame_count>>]_vars

\* C20: a failed read never ends the acquisition loop: the thread backs off,
\* tests the stop signal and reads again, a successful read is appended to the
\* buffer, and the thread exits only at the loop test with is_running False.
C20_FailedReadKeepsLooping ==
    [][\A i \in CaptureIds :
         /\ (cap_pc[i] = "read" /\ cap_pc'[i] # "read")
                => cap_pc'[i] \in {"lock", "sleep"}
         /\ (cap_pc[i] = "sleep" /\ cap_pc'[i] # "sleep")
                => cap_pc'[i] = "loop"
         /\ (cap_pc[i] = "loop" /\ cap_pc'[i] # "loop" /\ is_running)
                => cap_pc'[i] = "read"
         /\ (cap_pc[i] = "lock" /\ cap_pc'[i] # "lock")
                => /\ pushed' = Append(pushed, cap_frame[i])
                   /\ Newest(frame_buffer') = cap_frame[i]
         /\ (cap_pc[i] # "exited" /\ cap_pc'[i] = "exited")
                => (cap_pc[i] = "loop" /\ ~is_running)
      ]_vars

\* C20 witness: the only acquisition thread has pushed a frame after several
\* consecutive failed reads.
C20_Witness ==
    \E i \in CaptureIds :
        /\ opens = 1
        /\ cap_pc[i] = "count"
        /\ read_fails >= 2
        /\ Newest(frame_buffer) = cap_frame[i]

\* a capture thread is inside its with block
LockHeldByCapture == \E i \in CaptureIds : buffer_lock = CapThread(i)

\* C34: outside a capture thread's with block frame_count is the number of
\* frames pushed so far and the buffer holds min(frame_count, buffer_size)
\* frames; inside it the one push just made is still to be counted
C34_CountMatchesPushes ==
    IF LockHeldByCapture
    THEN frame_count + 1 = Len(pushed)
    ELSE /\ frame_count = Len(pushed)
         /\ Len(frame_buffer) = IF frame_count < BufferSize
                                THEN frame_count
                                ELSE BufferSize

\* more frames than the buffer holds have been counted by two threads, and
\* the lock is free
C34_Witness ==
    /\ buffer_lock = Free
    /\ frame_count > BufferSize
    /\ Len(frame_buffer) = BufferSize
    /\ opens > 1

\* a capture thread's cap.read() has just failed
FailedReadStep ==
    \E i \in CaptureIds : cap_pc[i] = "read" /\ cap_pc'[i] = "sleep"

\* C21: frame_errors counts the failed reads: it starts at 0 (GrabberInit),
\* every failed cap.read() adds one to it and nothing else changes it
C21_ErrorsCounted ==
    [][frame_errors' = IF FailedReadStep
                       THEN frame_errors + 1
                       ELSE frame_errors]_vars

(* -------------------------- claims: ObjectDetector --------------------- *)
\* out holds exactly the elements of inp that satisfy Keep, each as it was
\* and in inp's order
IsFilterOf(out, inp, Keep(_)) ==
    /\ Len(out) = Cardinality({k \in 1..Len(inp) : Keep(inp[k])})
    /\ \A k \in 1..Len(out) : Keep(out[k])
    /\ \E f \in [1..Len(out) -> 1..Len(inp)] :
           /\ \A k \in 1..Len(out) : out[k] = inp[f[k]]
           /\ \A k, l \in 1..Len(out) : k < l => f[k] < f[l]

\* the model ran on the frame of the last call
ModelRan == last_call.d.model # "None" /\ ~last_call.fails

AtLeast(x, threshold) == x.confidence >= threshold
InClasses(x, class_names) == x.class_name \in Range(class_names)

\* C22: detect returns exactly the model's boxes with confidence >=
\* confidence_threshold, in the model's order, and filter_by_class, called on
\* that list as process_frame does, drops nothing more for its confidence
C22_ThresholdOnce ==
    /\ (last_call.op = "detect" /\ ModelRan) =>
           IsFilterOf(last_call.result, last_call.raw,
                      LAMBDA x : AtLeast(x, last_call.d.confidence_threshold))
    /\ (last_call.op = "filter_by_class" /\ ModelRan) =>
           IsFilterOf(last_call.result, last_call.raw,
                      LAMBDA x : /\ AtLeast(x, last_call.d.confidence_threshold)
                                 /\ InClasses(x, last_call.class_names))

\* confidences [0.9, 0.3, 0.6] with threshold 0.5 have yielded [0.9, 0.6]
C22_Witness ==
    /\ last_call.op = "detect" /\ ModelRan
    /\ last_call.d.confidence_threshold = 50
    /\ last_call.raw = <<Det("person", 90), Det("car", 30), Det("person", 60)>>
    /\ last_call.result = <<Det("person", 90), Det("person", 60)>>

\* C23: filter_by_class returns exactly the detections whose class_name is in
\* the given classes, unchanged and in input order; nothing from nothing
C23_FilterByClass ==
    last_call.op = "filter_by_class" =>
        /\ IsFilterOf(last_call.result, last_call.detections,
                      LAMBDA x : InClasses(x, last_call.class_names))
        /\ (last_call.detections = <<>> => last_call.result = <<>>)

\* [person(0.9), car(0.8), person(0.4)] thresholded at 0.3 and filtered for
\* person has yielded [person(0.9), person(0.4)]
C23_Witness ==
    /\ last_call.op = "filter_by_class"
    /\ last_call.class_names = <<"person">>
    /\ last_call.detections =
           <<Det("person", 90), Det("car", 80), Det("person", 40)>>
    /\ last_call.result = <<Det("person", 90), Det("person", 40)>>

\* the detector of the last call has no model, or its model call failed
DetectorDown == last_call.d.model = "None" \/ last_call.fails

Given(kwargs, key) == \E k \in 1..Len(kwargs) : kwargs[k][1] = key
ValueGiven(kwargs, key) ==
    kwargs[CHOOSE k \in 1..Len(kwargs) : kwargs[k][1] = key][2]

\* C26: configure sets exactly the keys it is given that the configuration
\* has, to the given values, keeps every other key and adds none;
\* set_target_classes replaces target_classes and nothing else; neither
\* touches anything outside the configuration
C26_PartialUpdate ==
    [][/\ last_call'.op = "configure" =>
              /\ DOMAIN config' = DOMAIN config
              /\ \A key \in DOMAIN config :
                     config'[key] = IF Given(last_call'.kwargs, key)
                                    THEN ValueGiven(last_call'.kwargs, key)
                                    ELSE config[key]
              /\ besideConfig' = besideConfig
       /\ last_call'.op = "set_target_classes" =>
              /\ DOMAIN config' = DOMAIN config
              /\ config'.target_classes = last_call'.classes
              /\ \A key \in DOMAIN config \ {"target_classes"} :
                     config'[key] = config[key]
              /\ besideConfig' = besideConfig]_vars

\* configure(confidence_threshold=0.8, verbose=True) has set the threshold,
\* kept the cooldown and the classes, and added no key
C26_Witness ==
    /\ last_call.op = "configure"
    /\ last_call.kwargs = <<<<"confidence_threshold", 80>>, <<"verbose", TRUE>>>>
    /\ config.confidence_threshold = 80
    /\ config.alert_cooldown_seconds = 30
    /\ config.target_classes = <<"person">>
    /\ "verbose" \notin DOMAIN config

\* C27: a new orchestrator has target_classes [person], confidence_threshold
\* 0.5, alert_cooldown_seconds 30 and save_alert_frames true, and after any
\* reconfiguration 0.0 <= confidence_threshold <= 1.0 and
\* alert_cooldown_seconds is an integer >= 0
C27_ConfigInRange ==
    /\ last_call.op = "none" =>
           /\ config.target_classes = <<"person">>
           /\ config.confidence_threshold = 50
           /\ config.alert_cooldown_seconds = 30
           /\ config.save_alert_frames = TRUE
    /\ config.confidence_threshold >= 0
    /\ config.confidence_threshold <= 100
    /\ config.alert_cooldown_seconds \in Nat

\* C25: in every state after initialize the detector's threshold is
\* config['confidence_threshold'], and every process_frame returns only
\* detections at or above the configured threshold and of the configured
\* target classes
C25_ConfigInEffect ==
    [][/\ object_detector' # None =>
              object_detector'[1].confidence_threshold =
                  config'.confidence_threshold
       /\ processed' = processed + 1 =>
              \A k \in 1..Len(last_target') :
                  /\ last_target'[k].confidence >= config.confidence_threshold
                  /\ last_target'[k].class_name
                         \in Range(config.target_classes)]_vars

\* initialize() has failed: the FrameGrabber it made could not open its source
InitializeFailed ==
    frame_grabber # "None" /\ cap = "closed" /\ opens = 0

\* C28: after a failed initialize() the pipeline cannot be started
\* (is_running stays False) and process_frame raises no alert and records
\* no history
C28_FailedInitializeBlocksStart ==
    InitializeFailed =>
        /\ ~orch_is_running
        /\ detection_history = <<>>
        /\ raised = <<>>
        /\ processed = 0

(* ---------------------------- claims: alert text ----------------------- *)
\* a step in which send_alert_email is called
SendStep == Len(sends') = Len(sends) + 1

\* C30: the subject of every alert handed to send_alert_email holds the
\* number of detections, and its body holds the time of the alert, that
\* number and, for each detection in input order, its class name and its
\* confidence
C30_AlertText ==
    [][SendStep =>
          LET call == sends'[Len(sends')]
              detections == last_target'
          IN /\ call.subject[2] = Len(detections)
             /\ call.message.time = now
             /\ call.message.count = Len(detections)
             /\ Len(call.message.lines) = Len(detections)
             /\ \A k \in 1..Len(detections) :
                    /\ call.message.lines[k][1] = detections[k].class_name
                    /\ call.message.lines[k][2][1] = detections[k].confidence]_vars

\* an alert for a person and a car has been handed to send_alert_email at a
\* time other than the start
C30_Witness ==
    /\ sends # <<>>
    /\ last_target = <<Det("person", 90), Det("car", 80)>>
    /\ sends[Len(sends)].message.count = 2
    /\ sends[Len(sends)].message.time = now
    /\ now > 0

(* ------------------------- claims: end to end ------------------------- *)
\* the detection_history entries of the frame with the person
PersonEntries ==
    {k \in 1..Len(detection_history) : detection_history[k].detection_count > 0}

\* the source has delivered all its frames and the frame with the person
\* has been processed
RunOver == next_seq > MaxFrames /\ PersonEntries # {}

\* C29: at the end of the run the alert history holds exactly one record,
\* stamped with the time the frame with the person was processed, and its
\* summary mentions person
C29_OneAlertRecord ==
    RunOver =>
        /\ Len(alert_history) = 1
        /\ \E k \in PersonEntries :
               alert_history[1].timestamp = detection_history[k].timestamp
        /\ "person" \in {alert_history[1].subject[1],
                          alert_history[1].subject[3]}

(* ----------------------------- claims: recipients --------------------- *)
\* the place of the first x in s
FirstAt(s, x) == CHOOSE k \in 1..Len(s) : s[k] = x /\ \A l \in 1..(k - 1) : s[l] # x

\* C31: the recipient list holds every address given so far exactly once, in
\* the order in which the addresses were first given
C31_RecipientsOnceInOrder ==
    /\ Range(recipient_emails) = Range(AddedSoFar)
    /\ \A k, l \in 1..Len(recipient_emails) :
           k < l => /\ recipient_emails[k] # recipient_emails[l]
                    /\ FirstAt(AddedSoFar, recipient_emails[k])
                           < FirstAt(AddedSoFar, recipient_emails[l])

\* owner, guard and owner again have been given: owner is listed once, first
C31_Witness ==
    /\ AddedSoFar = <<"owner@example.com", "guard@example.com",
                      "owner@example.com">>
    /\ recipient_emails = <<"owner@example.com", "guard@example.com">>

(* ------------------------- claims: alert frames ------------------------ *)
\* a step of process_frame that raises an alert
RaisesAlert == processed' = processed + 1 /\ raised' = Append(raised, now)

\* C32: a frame is saved only by a call that raises an alert while
\* save_alert_frames is set, such a call saves its frame whenever the write
\* can succeed, and the mail of an alert carries the path of the frame
\* saved for it, or no attachment if none was saved (flag off or write
\* failed)
C32_SaveExactlyOnAlert ==
    [][/\ saved' # saved => RaisesAlert /\ config.save_alert_frames
       /\ (RaisesAlert /\ config.save_alert_frames /\ last_call'.save_ok) =>
              saved' = Append(saved,
                              [path |-> AlertPath(config.alert_frame_dir, now),
                               frame |-> last_call'.frame])
       /\ Len(sends') = Len(sends) + 1 =>
              sends'[Len(sends')].attachment =
                  IF saved' # saved
                  THEN <<saved'[Len(saved')].path>>
                  ELSE None]_vars

\* with save_alert_frames off an alert has been raised and mailed without
\* attachment, and nothing was saved
C32_Witness ==
    /\ ~config.save_alert_frames
    /\ raised # <<>>
    /\ sends # <<>>
    /\ sends[Len(sends)].attachment = None
    /\ saved = <<>>

\* C36: a process_frame call that follows another one works on a frame only
\* if the acquisition loop has pushed a frame since that other call
C36_FrameConsumedOnce ==
    [][(processed' = processed + 1 /\ last_call.op = "process_frame") =>
          Len(pushed) > last_call.pushes]_vars

\* C37: no two saved alert frames have the same path
C37_DistinctAlertPaths ==
    \A k, l \in 1..Len(saved) : k < l => saved[k].path # saved[l].path

(* --------------------------- claims: statistics ------------------------ *)
\* the keys of the statistics that hold the running state, the number of
\* frames processed, the cooldown state and the configuration
StatKeys == {"is_running", "total_detections", "last_alert", "config"}

\* what get_stats has returned agrees with the state
StatsMatchState ==
    /\ last_call.result.is_running = orch_is_running
    /\ last_call.result.total_detections = processed
    /\ last_call.result.last_alert = last_alert_time
    /\ last_call.result.config = config

\* C33 as stated: the statistics also hold the number of alerts raised
C33_Original ==
    last_call.op = "get_stats" =>
        /\ StatsMatchState
        /\ \E key \in DOMAIN last_call.result \ StatKeys :
               last_call.result[key] = Len(raised)

\* C33: get_stats returns is_running, the number of process_frame calls
\* that obtained a frame (total_detections), the current last_alert_time
\* (last_alert) and the configuration, and nothing else
C33_StatsMatchState ==
    last_call.op = "get_stats" =>
        /\ StatsMatchState
        /\ DOMAIN last_call.result = StatKeys

\* statistics taken after two frames were processed and one alert raised
C33_Witness ==
    /\ last_call.op = "get_stats"
    /\ processed = 2
    /\ Len(raised) = 1
    /\ orch_is_running
    /\ last_call.result.total_detections = 2
    /\ last_call.result.last_alert = <<raised[1]>>

(* ----------------------------- claims: re-open ------------------------- *)
\* C38: a get_frame call made after a release() and a successful open()
\* returns only a frame pushed since that open()
C38_OnlyFramesSinceReopen ==
    \A j \in ReaderIds :
        (/\ last_call.op = "open"
         /\ last_call.reopen
         /\ j \notin last_call.under_way
         /\ Returned(j, "get_frame")
         /\ rd[j].avail)
        => \E k \in (last_call.mark + 1)..Len(pushed) : rd[j].frame = pushed[k]

(* ------------------------------ claims: stop --------------------------- *)
\* what stop() and process_frame may write: the orchestrator, the alert
\* system, its files and mails, and the grabber's flags and handle
stopScope ==
    <<orchVars, alertVars, worldVars, historyVars, cap, is_active, is_running,
      capture_thread, opens>>

\* C35: once stop() has returned, is_running is False and process_frame
\* obtains no frame, so it raises no alert and records nothing; a later
\* stop() changes none of this
C35_StoppedStaysStopped ==
    [][/\ Stopped' => (~orch_is_running' /\ ~FrameAvailable')
       /\ Stopped => UNCHANGED stopScope]_vars

\* a second stop() is under way after a run that buffered frames, processed
\* some and raised an alert
C35_Witness ==
    /\ Stopped
    /\ main_pc = "join"
    /\ frame_buffer # <<>>
    /\ processed > 0
    /\ raised # <<>>

(* ----------------------- claims: cooldown and alerts ------------------- *)
\* a step in which process_frame obtained a frame and a non-empty filtered list
DetectionStep == processed' = processed + 1 /\ last_target' # <<>>

\* a step that raises an alert at the current time
AlertStep == raised' = Append(raised, now) /\ last_alert_time' = <<now>>

CooldownElapsed ==
    \/ last_alert_time = None
    \/ Elapsed(now, last_alert_time[1]) >= config.alert_cooldown_seconds

\* C1: a process_frame call with a non-empty filtered detection list raises an
\* alert (sets last_alert_time to now) if and only if last_alert_time is unset
\* or now - last_alert_time >= alert_cooldown_seconds.
C1_AlertIffCooldownElapsed ==
    [][DetectionStep => (AlertStep <=> CooldownElapsed)]_vars

\* C2: a non-empty filtered detection list arriving while
\* now - last_alert_time < alert_cooldown_seconds leaves last_alert_time
\* unchanged, saves no frame, sends no notification, appends nothing to the
\* alert history, and appends exactly one entry to detection_history.
C2_SuppressedInCooldown ==
    [][(DetectionStep /\ ~CooldownElapsed)
        => /\ UNCHANGED <<last_alert_time, raised, saved, sends, alert_history>>
           /\ detection_history' =
                  Append(detection_history, HistoryEntry(now, last_target'))
      ]_vars

\* C2 witness: a detection was recorded later than the last alert and inside
\* its cooldown window, and the alert time did not move.
C2_Witness ==
    /\ last_alert_time # None
    /\ \E k \in 1..Len(detection_history) :
        /\ detection_history[k].detection_count > 0
        /\ detection_history[k].timestamp > last_alert_time[1]
        /\ Elapsed(detection_history[k].timestamp, last_alert_time[1])
               < config.alert_cooldown_seconds
    /\ Len(raised) = 1

\* C5: the number of records in alert_history equals the number of alerts
\* raised, whether or not email delivery is enabled.
C5_OneRecordPerAlert == Len(alert_history) = Len(raised)

\* C6: after a failed delivery (send_alert_email returned False) the alert
\* time is not rolled back, the alert's record is in the alert history, and no
\* further alert or delivery happens inside that alert's cooldown window.
C6_FailedDeliveryKeepsRecord ==
    \A k \in 1..Len(sends) :
        ~sends[k].ok
        => /\ last_alert_time # None
           /\ last_alert_time[1] >= sends[k].time
           /\ \E h \in 1..Len(alert_history) :
                  alert_history[h].timestamp = sends[k].time
           /\ \A r \in Range(raised) :
                  ~(/\ r > sends[k].time
                    /\ Elapsed(r, sends[k].time) < config.alert_cooldown_seconds)
           /\ \A m \in 1..Len(sends) :
                  ~(/\ sends[m].time > sends[k].time
                    /\ Elapsed(sends[m].time, sends[k].time)
                           < config.alert_cooldown_seconds)

\* C3: with a fixed alert_cooldown_seconds, any two alerts raised by
\* concurrent process_frame callers are at least that many seconds apart.
C3_AlertsCooldownApart ==
    \A i, j \in 1..Len(raised) :
        i < j => Elapsed(raised[j], raised[i]) >= config.alert_cooldown_seconds

\* C4: two runs given non-empty filtered detection lists at the same times,
\* with different class names, raise their alerts at exactly the same times.
C4_DecisionIgnoresClasses ==
    /\ twin.o.raised = raised
    /\ twin.o.last_alert_time = last_alert_time

\* C4 witness: the two runs last received different classes, an alert was
\* raised and a later detection was suppressed.
C4_Witness ==
    /\ Range(last_target) # Range(twin.target)
    /\ last_target # <<>> /\ twin.target # <<>>
    /\ Len(raised) >= 1
    /\ processed > Len(raised)

IsPrefix(s1, s2) == Len(s1) <= Len(s2) /\ SubSeq(s2, 1, Len(s1)) = s1
TimeOrdered(h) ==
    \A k \in 1..(Len(h) - 1) : h[k].timestamp <= h[k + 1].timestamp

\* C7: the alert history is append-only and time-ordered: every step keeps
\* the existing records unchanged and in place, also when a caller mutates
\* the list get_alert_history returned, and the timestamps never decrease.
C7_HistoryAppendOnlyOrdered ==
    [][IsPrefix(alert_history, alert_history') /\ TimeOrdered(alert_history')]_vars

\* C7 witness: two alerts recorded at different times, and a caller has
\* changed the list it got from get_alert_history.
C7_Witness ==
    /\ Len(alert_history) >= 2
    /\ alert_history[1].timestamp < alert_history[2].timestamp
    /\ caller_list.ref = "copy"
    /\ caller_list.items # alert_history

====
